---- MODULE Spec2Model ----
(***************************************************************************)
(* Model of the session authentication and resilient-execution subsystem   *)
(* of gong-agent-tools: GongAgent._execute_with_retry and the refresh it   *)
(* drives (agent.py), GongAPIClient.set_session / _make_request            *)
(* (api_client/client.py) and GongAuthenticationManager (auth_manager.py). *)
(*                                                                         *)
(* Strings whose content the code inspects (error messages, e-mail         *)
(* addresses, cell ids) are tuples of one-character strings.  An optional  *)
(* value is <<>> for None and <<x>> for a present x.                       *)
(***************************************************************************)
EXTENDS Integers, Sequences, FiniteSets, TLC

\* ------------------------------------------------------------------------
\* Bounds of the model
\* ------------------------------------------------------------------------

\* largest max_retries a caller passes to _execute_with_retry
MaxRetriesBound ==
    2

\* the clock runs from 1 to MaxNow
MaxNow ==
    2

\* the number of GongSession objects the manager's program allocates
MaxSessions ==
    2

\* ------------------------------------------------------------------------
\* Text
\* ------------------------------------------------------------------------

None ==
    <<>>

Some(x) ==
    <<x>>

UpperChars ==

    <<"A", "B", "C", "D", "E", "F", "G", "H", "I", "J", "K", "L", "M", "N",
      "O", "P", "Q", "R", "S", "T", "U", "V", "W", "X", "Y", "Z">>

LowerChars ==

    <<"a", "b", "c", "d", "e", "f", "g", "h", "i", "j", "k", "l", "m", "n",
      "o", "p", "q", "r", "s", "t", "u", "v", "w", "x", "y", "z">>

\* str.lower() on one character
LowerChar(c) ==
    IF \E i \in 1..Len(UpperChars) : UpperChars[i] = c
    THEN LowerChars[CHOOSE i \in 1..Len(UpperChars) : UpperChars[i] = c]
    ELSE c

\* str.lower()
Lower(s) ==
    [i \in 1..Len(s) |-> LowerChar(s[i])]

\* the Python test "sub in s"
Contains(s, sub) ==
    \E i \in 1..(Len(s) - Len(sub) + 1) : SubSeq(s, i, i + Len(sub) - 1) = sub

\* ------------------------------------------------------------------------
\* Error messages raised by the repository and by caller-supplied operations
\* ------------------------------------------------------------------------

\* "Authentication failed - session may be expired"  (api_client/client.py:184)
MsgHttp401 ==
    <<"A", "u", "t", "h", "e", "n", "t", "i", "c", "a", "t", "i", "o", "n",
      " ", "f", "a", "i", "l", "e", "d", " ", "-", " ", "s", "e", "s", "s",
      "i", "o", "n", " ", "m", "a", "y", " ", "b", "e", " ", "e", "x", "p",
      "i", "r", "e", "d">>

\* "Rate limit exceeded"  (api_client/client.py:181)
MsgRateLimit ==
    <<"R", "a", "t", "e", " ", "l", "i", "m", "i", "t", " ", "e", "x", "c",
      "e", "e", "d", "e", "d">>

\* "API request failed: 500 - Internal Server Error"  (api_client/client.py:187)
MsgHttp500 ==
    <<"A", "P", "I", " ", "r", "e", "q", "u", "e", "s", "t", " ", "f", "a",
      "i", "l", "e", "d", ":", " ", "5", "0", "0", " ", "-", " ", "I", "n",
      "t", "e", "r", "n", "a", "l", " ", "S", "e", "r", "v", "e", "r", " ",
      "E", "r", "r", "o", "r">>

\* "No active session"  (api_client/client.py:148)
MsgNoActiveSession ==
    <<"N", "o", " ", "a", "c", "t", "i", "v", "e", " ", "s", "e", "s", "s",
      "i", "o", "n">>

\* "No valid session available"  (auth_manager.py:522)
MsgNoValidSession ==
    <<"N", "o", " ", "v", "a", "l", "i", "d", " ", "s", "e", "s", "s", "i",
      "o", "n", " ", "a", "v", "a", "i", "l", "a", "b", "l", "e">>

\* "All session tokens have expired"  (auth_manager.py:466)
MsgAllExpired ==
    <<"A", "l", "l", " ", "s", "e", "s", "s", "i", "o", "n", " ", "t", "o",
      "k", "e", "n", "s", " ", "h", "a", "v", "e", " ", "e", "x", "p", "i",
      "r", "e", "d">>

\* "401 unauthorized"  (a caller-supplied operation)
Msg401Unauthorized ==
    <<"4", "0", "1", " ", "u", "n", "a", "u", "t", "h", "o", "r", "i", "z",
      "e", "d">>

\* "UNAUTHORIZED"  (a caller-supplied operation)
MsgUpperUnauthorized ==
    <<"U", "N", "A", "U", "T", "H", "O", "R", "I", "Z", "E", "D">>

\* "API Error"  (tests/test_agent.py:236)
MsgApiError ==
    <<"A", "P", "I", " ", "E", "r", "r", "o", "r">>

\* the four substrings _execute_with_retry looks for (agent.py:362-365)

\* "authentication failed"
SubAuthenticationFailed ==
    <<"a", "u", "t", "h", "e", "n", "t", "i", "c", "a", "t", "i", "o", "n",
      " ", "f", "a", "i", "l", "e", "d">>

\* "session may be expired"
SubSessionMayBeExpired ==
    <<"s", "e", "s", "s", "i", "o", "n", " ", "m", "a", "y", " ", "b", "e",
      " ", "e", "x", "p", "i", "r", "e", "d">>

\* "unauthorized"
SubUnauthorized ==
    <<"u", "n", "a", "u", "t", "h", "o", "r", "i", "z", "e", "d">>

\* "401"
Sub401 ==
    <<"4", "0", "1">>
\* "'NoneType' object has no attribute 'get_users'"  (agent.py:454 with
\* api_client still None)
MsgNoneType ==
    <<"'", "N", "o", "n", "e", "T", "y", "p", "e", "'", " ", "o", "b", "j",
      "e", "c", "t", " ", "h", "a", "s", " ", "n", "o", " ", "a", "t", "t",
      "r", "i", "b", "u", "t", "e", " ", "'", "g", "e", "t", "_", "u", "s",
      "e", "r", "s", "'">>

\* ------------------------------------------------------------------------
\* Data models (data_models/models.py)
\* ------------------------------------------------------------------------

\* "a@b.com"
EmailAB ==
    <<"a", "@", "b", ".", "c", "o", "m">>

\* "us-1"
CellUS ==
    <<"u", "s", "-", "1">>

\* GongAuthenticationToken; exp and iat are payload.exp and payload.iat,
\* expires_at is set from payload.exp when the token is constructed, and
\* is_expired is the stored field
Token(type, raw, exp, iat, expired, cell, email) ==
    [token_type |-> type, raw_token |-> raw, exp |-> exp, iat |-> iat,
     expires_at |-> exp, is_expired |-> expired, cell_id |-> cell,
     user_email |-> email]

\* GongSession.validate_cell_format
validate_cell_format(v) ==
    ~(Len(v) > 0 /\ Len(v) < 3)

\* GongSession
GongSession(id, email, cell, tokens, cookies, t) ==
    [session_id |-> id, user_email |-> email, cell_id |-> cell,
     company_id |-> None, workspace_id |-> None,
     authentication_tokens |-> tokens, session_cookies |-> cookies,
     created_at |-> t, last_activity |-> t, is_active |-> TRUE]

\* ------------------------------------------------------------------------
\* GongAuthenticationManager (authentication/auth_manager.py)
\* ------------------------------------------------------------------------

\* an operation that raised: the exception class and its message
Raised(cls, msg) ==
    [ok |-> FALSE, error |-> cls, message |-> msg]

\* an operation that returned a value
Returned(v) ==
    [ok |-> TRUE, value |-> v]

\* the validation without the check that some token is unexpired
Mut_validate_session(session) ==
    IF Len(session.authentication_tokens) = 0
    THEN Raised("GongAuthenticationError", "Session has no authentication tokens")
    ELSE IF Len(session.user_email) = 0 \/ ~Contains(session.user_email, <<"@">>)
    THEN Raised("GongAuthenticationError", "Invalid user email in session")
    ELSE IF Len(session.cell_id) > 0 /\ Len(session.cell_id) < 3
    THEN Raised("GongAuthenticationError", "Invalid cell ID in session")
    ELSE Returned(TRUE)

\* the outcome of _validate_session: "ok" or the class of the exception raised
\* together with its message
_validate_session(session) ==
    IF Len(session.authentication_tokens) = 0
    THEN Raised("GongAuthenticationError", "Session has no authentication tokens")
    ELSE IF \A i \in 1..Len(session.authentication_tokens) :
                session.authentication_tokens[i].is_expired
    THEN Raised("GongSessionExpiredError", "All session tokens have expired")
    ELSE IF Len(session.user_email) = 0 \/ ~Contains(session.user_email, <<"@">>)
    THEN Raised("GongAuthenticationError", "Invalid user email in session")
    ELSE IF Len(session.cell_id) > 0 /\ Len(session.cell_id) < 3
    THEN Raised("GongAuthenticationError", "Invalid cell ID in session")
    ELSE Returned(TRUE)

\* is_session_valid on an optional session
is_session_valid(osession) ==
    IF osession = None
    THEN FALSE
    ELSE _validate_session(osession[1]).ok

\* get_base_url
get_base_url(session) ==
    IF Len(session.cell_id) > 0
    THEN <<"https://">> \o session.cell_id \o <<".app.gong.io">>
    ELSE <<"https://app.gong.io">>

\* the cookie types _extract_session_from_artifacts reads tokens from
JwtCookieTypes ==
    {"last_login_jwt", "cell_jwt"}

\* the cookie types _extract_session_from_artifacts records as cookies
SessionCookieTypes ==
    {"gong_session", "aws_alb", "aws_albtg", "gong_user_id", "gong_group_id"}

\* artifact['type'].startswith('cookie_') and the type with the prefix
\* removed, as an optional value: None when the prefix is absent
CookieType(type) ==
    CASE type = "cookie_last_login_jwt" -> Some("last_login_jwt")
      [] type = "cookie_cell_jwt" -> Some("cell_jwt")
      [] type = "cookie_gong_session" -> Some("gong_session")
      [] type = "cookie_aws_alb" -> Some("aws_alb")
      [] type = "cookie_aws_albtg" -> Some("aws_albtg")
      [] type = "cookie_gong_user_id" -> Some("gong_user_id")
      [] type = "cookie_gong_group_id" -> Some("gong_group_id")
      [] type = "cookie_other" -> Some("other")
      [] OTHER -> None

\* the scaled range GongJWTPayload.validate_timestamps accepts
\* (1000000000 .. 9999999999 in the source)
TimestampMin ==
    1

TimestampMax ==
    8

\* GongJWTPayload: the validators pass
PayloadValid(p) ==
    /\ p.exp # None /\ p.exp[1] >= TimestampMin /\ p.exp[1] <= TimestampMax
    /\ p.iat # None /\ p.iat[1] >= TimestampMin /\ p.iat[1] <= TimestampMax
    /\ p.jti # None
    /\ p.gu # None /\ Contains(p.gu[1], <<"@">>) /\ Contains(p.gu[1], <<".">>)

\* _process_jwt_artifact: an optional token
_process_jwt_artifact(artifact, t) ==
    IF artifact.value = "" \/ artifact.decoded_value = None
    THEN None
    ELSE IF ~PayloadValid(artifact.decoded_value[1])
    THEN None
    ELSE LET p == artifact.decoded_value[1]
         IN  Some(Token(IF artifact.name = None THEN "" ELSE artifact.name[1],
                        artifact.value, p.exp[1], p.iat[1], t > p.exp[1],
                        IF p.cell = None THEN <<>> ELSE p.cell[1], p.gu[1]))

RECURSIVE ArtifactTokens(_, _)
\* the jwt_tokens list _extract_session_from_artifacts collects
ArtifactTokens(artifacts, t) ==
    IF artifacts = <<>>
    THEN <<>>
    ELSE LET a == Head(artifacts)
             ct == CookieType(a.type)
             rest == ArtifactTokens(Tail(artifacts), t)
         IN  IF ct # None /\ ct[1] \in JwtCookieTypes
             THEN _process_jwt_artifact(a, t) \o rest
             ELSE rest

RECURSIVE ArtifactCookies(_)
\* the session_cookies dict _extract_session_from_artifacts collects, as a
\* sequence of <<name, value>> in which a later value replaces an earlier one
ArtifactCookies(artifacts) ==
    IF artifacts = <<>>
    THEN <<>>
    ELSE LET a == artifacts[Len(artifacts)]
             ct == CookieType(a.type)
             before == ArtifactCookies(SubSeq(artifacts, 1, Len(artifacts) - 1))
         IN  IF ct # None /\ ct[1] \in SessionCookieTypes
             THEN LET name == IF a.name = None THEN ct[1] ELSE a.name[1]
                      pos == {i \in 1..Len(before) : before[i][1] = name}
                  IN  IF pos = {}
                      THEN Append(before, <<name, a.value>>)
                      ELSE [i \in 1..Len(before) |->
                               IF i \in pos THEN <<name, a.value>> ELSE before[i]]
             ELSE before

\* the identity taken from the last token with both an e-mail and a cell id
Mut_extract_user_info(jwt_tokens) ==
    LET good == {i \in 1..Len(jwt_tokens) :
                    Len(jwt_tokens[i].user_email) > 0 /\ Len(jwt_tokens[i].cell_id) > 0}
    IN  IF good = {}
        THEN None
        ELSE LET i == CHOOSE j \in good : \A k \in good : j >= k
             IN  Some([email |-> jwt_tokens[i].user_email,
                       cell_id |-> jwt_tokens[i].cell_id])

\* _extract_user_info: the first token with both an e-mail and a cell id
_extract_user_info(jwt_tokens) ==
    LET good == {i \in 1..Len(jwt_tokens) :
                    Len(jwt_tokens[i].user_email) > 0 /\ Len(jwt_tokens[i].cell_id) > 0}
    IN  IF good = {}
        THEN None
        ELSE LET i == CHOOSE j \in good : \A k \in good : j <= k
             IN  Some([email |-> jwt_tokens[i].user_email,
                       cell_id |-> jwt_tokens[i].cell_id])

\* the extraction without its two guards: user_info['email'] on None
Mut_extract_session_from_artifacts(artifacts, t) ==
    LET jwt_tokens == ArtifactTokens(artifacts, t)
        user_info == _extract_user_info(jwt_tokens)
    IN  IF user_info = None
        THEN Raised("TypeError", "'NoneType' object is not subscriptable")
        ELSE IF ~validate_cell_format(user_info[1].cell_id)
        THEN Raised("ValidationError", "Invalid cell ID format")
        ELSE LET s == GongSession([prefix |-> "gong_artifacts", stamp |-> t],
                                  user_info[1].email, user_info[1].cell_id,
                                  jwt_tokens, ArtifactCookies(artifacts), t)
                 v == _validate_session(s)
             IN  IF v.ok THEN Returned(s) ELSE v

\* _extract_session_from_artifacts at clock t: the session, or the exception
_extract_session_from_artifacts(artifacts, t) ==
    LET jwt_tokens == ArtifactTokens(artifacts, t)
        user_info == _extract_user_info(jwt_tokens)
    IN  IF jwt_tokens = <<>>
        THEN Raised("GongAuthenticationError", "No JWT tokens found in artifacts")
        ELSE IF user_info = None
        THEN Raised("GongAuthenticationError", "No user information found in JWT tokens")
        ELSE IF ~validate_cell_format(user_info[1].cell_id)
        THEN Raised("ValidationError", "Invalid cell ID format")
        ELSE LET s == GongSession([prefix |-> "gong_artifacts", stamp |-> t],
                                  user_info[1].email, user_info[1].cell_id,
                                  jwt_tokens, ArtifactCookies(artifacts), t)
                 v == _validate_session(s)
             IN  IF v.ok THEN Returned(s) ELSE v

\* extract_session_from_analysis_data: analysis_data is optional, and so is
\* its 'artifacts' key
extract_session_from_analysis_data(analysis_data, t) ==
    IF analysis_data = None \/ analysis_data[1].artifacts = None
    THEN Raised("GongAuthenticationError", "Invalid analysis data: missing artifacts")
    ELSE _extract_session_from_artifacts(analysis_data[1].artifacts[1], t)

\* the tokens of a session that read expired: token.is_expired is the field
\* stored in the token
ExpiredTokens(s) ==
    {i \in 1..Len(s.authentication_tokens) : s.authentication_tokens[i].is_expired}

\* the judgement at half of the tokens expired being enough
Mut_is_session_expired(otarget) ==
    IF otarget = None
    THEN TRUE
    ELSE LET s == otarget[1]
         IN  \/ ~s.is_active
             \/ Len(s.authentication_tokens) = 0
             \/ 2 * Cardinality(ExpiredTokens(s)) >= Len(s.authentication_tokens)

\* is_session_expired on the optional session "session or self.current_session"
is_session_expired(otarget) ==
    IF otarget = None
    THEN TRUE
    ELSE LET s == otarget[1]
         IN  \/ ~s.is_active
             \/ Len(s.authentication_tokens) = 0
             \/ 2 * Cardinality(ExpiredTokens(s)) > Len(s.authentication_tokens)

\* timedelta(hours=1), on the scale of TimestampMin..TimestampMax
RefreshExtension ==
    1

\* the refresh that also clears the expired flag of the tokens it extends
Mut_refresh_session(s, t) ==
    IF ExpiredTokens(s) # 1..Len(s.authentication_tokens)
    THEN [stored |-> FALSE, session |-> [s EXCEPT !.last_activity = t]]
    ELSE [stored |-> TRUE,
          session |->
            [s EXCEPT !.authentication_tokens =
                          [i \in 1..Len(s.authentication_tokens) |->
                              [s.authentication_tokens[i]
                                  EXCEPT !.expires_at = t + RefreshExtension,
                                         !.is_expired = FALSE]],
                      !.last_activity = t,
                      !.is_active = TRUE]]

\* refresh_session on the session object s at clock t: the object afterwards
\* and whether the method went on to store it in session_cache
refresh_session(s, t) ==
    IF ExpiredTokens(s) # 1..Len(s.authentication_tokens)
    THEN [stored |-> FALSE, session |-> [s EXCEPT !.last_activity = t]]
    ELSE [stored |-> TRUE,
          session |->
            [s EXCEPT !.authentication_tokens =
                          [i \in 1..Len(s.authentication_tokens) |->
                              [s.authentication_tokens[i]
                                  EXCEPT !.expires_at = t + RefreshExtension]],
                      !.last_activity = t,
                      !.is_active = TRUE]]

\* the assignment left out
Mut_CachePut(cache, id, ref) ==
    cache

\* self.session_cache[id] = <the object ref>
CachePut(cache, id, ref) ==
    [x \in DOMAIN cache \cup {id} |-> IF x = id THEN ref ELSE cache[x]]

\* the cookie_parts list of get_session_headers, each part "name=value" as
\* <<name, value>>: the tokens whose is_expired is false, then the session
\* cookies whose value is not empty
CookieParts(s) ==
    LET tokens == SelectSeq(s.authentication_tokens, LAMBDA tk : ~tk.is_expired)
        cookies == SelectSeq(s.session_cookies, LAMBDA c : c[2] # "")
    IN  [i \in 1..Len(tokens) |-> <<tokens[i].token_type, tokens[i].raw_token>>]
            \o cookies

\* get_session_headers on the optional session "session or
\* self.current_session": the headers, of which the fixed browser headers are
\* the same in every call and 'Cookie' is present when there is a part
get_session_headers(otarget) ==
    IF otarget = None \/ ~is_session_valid(otarget)
    THEN Raised("GongAuthenticationError", "No valid session available")
    ELSE Returned([Accept |-> "application/json, text/plain, */*",
                   Cookie |-> IF CookieParts(otarget[1]) = <<>>
                              THEN None
                              ELSE Some(CookieParts(otarget[1]))])

\* no manager operation has run yet
NoResult ==
    [op |-> "none", target |-> None, jwt_tokens |-> <<>>, result |-> Returned(0)]

\* ------------------------------------------------------------------------
\* The capture provider (godcapture), external: what it can hand back
\* ------------------------------------------------------------------------

\* a freshly captured session: one bearer token, one cookie; is_valid() holds
ProviderSessionFresh ==
    [tokens |-> <<[value |-> "eyJ.fresh", type |-> "cell_jwt", expires_at |-> 8]>>,
     cookies |-> <<[name |-> "g-session", value |-> "x", domain |-> ".gong.io"]>>,
     metadata |-> [cell_id |-> CellUS, user_email |-> EmailAB],
     valid |-> TRUE]

\* a stored session the provider itself reports as no longer valid
ProviderSessionStale ==
    [tokens |-> <<[value |-> "eyJ.stale", type |-> "cell_jwt", expires_at |-> 1]>>,
     cookies |-> <<>>,
     metadata |-> [cell_id |-> CellUS, user_email |-> EmailAB],
     valid |-> FALSE]

\* results of godcapture.load_session: None or a session
LoadResults ==
    {None, Some(ProviderSessionFresh), Some(ProviderSessionStale)}

\* results of godcapture.reauthenticate: None or a session
ReauthResults ==
    {None, Some(ProviderSessionFresh)}

\* the provider handed back a session that carries a token and is valid
UsableCapture(ops) ==
    ops # None /\ ops[1].valid /\ Len(ops[1].tokens) > 0

\* ------------------------------------------------------------------------
\* GongAgent (agent.py)
\* ------------------------------------------------------------------------

\* the artifacts list _convert_to_gong_session builds from a provider session
ConvertArtifacts(ps) ==
    [i \in 1..Len(ps.tokens) |->
        [type |-> "jwt_token", value |-> ps.tokens[i].value,
         name |-> None, decoded_value |-> None]]
    \o
    [i \in 1..Len(ps.cookies) |->
        [type |-> "session_cookie", value |-> ps.cookies[i].value,
         name |-> None, decoded_value |-> None]]

\* the conversion as it would be with artifacts of the kinds the manager reads
Mut_convert_to_gong_session(ops, t) ==
    IF ops = None
    THEN Raised("AttributeError", "'NoneType' object has no attribute 'tokens'")
    ELSE extract_session_from_analysis_data(
           Some([artifacts |-> Some(
             [i \in 1..Len(ops[1].tokens) |->
                [type |-> "cookie_cell_jwt", value |-> ops[1].tokens[i].value,
                 name |-> Some(ops[1].tokens[i].type),
                 decoded_value |-> Some([exp |-> Some(ops[1].tokens[i].expires_at),
                                         iat |-> Some(TimestampMin),
                                         jti |-> Some("j"),
                                         gu |-> Some(ops[1].metadata.user_email),
                                         cell |-> Some(ops[1].metadata.cell_id)])]])]),
           t)

\* _convert_to_gong_session on an optional provider session at clock t
_convert_to_gong_session(ops, t) ==
    IF ops = None
    THEN Raised("AttributeError", "'NoneType' object has no attribute 'tokens'")
    ELSE extract_session_from_analysis_data(
           Some([artifacts |-> Some(ConvertArtifacts(ops[1]))]), t)

\* GongAuthenticationManager.__init__: session_cache = {}
EmptyCache ==
    [id \in {} |-> None]

\* GongAPIClient.__init__ around an auth manager whose current_session is cur
NewClient(cur) ==
    [current_session |-> cur, session_cache |-> EmptyCache,
     base_url |-> None, user_email |-> None, cell_id |-> None]

\* the statements of _apply_session_to_client and of the set_session it
\* calls, one position each
ApplyPositions ==
    {"apply", "assign_session", "install_client", "set_current",
     "set_base_url", "set_user_email", "set_cell_id"}

\* the set_session that installs the session before it looks at it
Mut_client_set_session(pos, c, gs) ==
    CASE pos = "install_client" ->
           IF ~is_session_valid(Some(gs))
           THEN [wpc |-> "failed",
                 api_client |-> [c EXCEPT !.current_session = Some(gs)]]
           ELSE [wpc |-> "set_current", api_client |-> c]
      [] pos = "set_current" ->
           [wpc |-> "set_base_url",
            api_client |-> [c EXCEPT !.current_session = Some(gs)]]
      [] pos = "set_base_url" ->
           [wpc |-> "set_user_email",
            api_client |-> [c EXCEPT !.base_url = Some(get_base_url(gs))]]
      [] pos = "set_user_email" ->
           [wpc |-> "set_cell_id",
            api_client |-> [c EXCEPT !.user_email = Some(gs.user_email)]]
      [] pos = "set_cell_id" ->
           [wpc |-> "done",
            api_client |-> [c EXCEPT !.cell_id = Some(gs.cell_id)]]

\* GongAPIClient.set_session(gs) on client c, the statement at position pos:
\* the position afterwards ("failed" when it raised) and the client
client_set_session(pos, c, gs) ==
    CASE pos = "install_client" ->
           IF ~is_session_valid(Some(gs))
           THEN [wpc |-> "failed", api_client |-> c]
           ELSE [wpc |-> "set_current", api_client |-> c]
      [] pos = "set_current" ->
           [wpc |-> "set_base_url",
            api_client |-> [c EXCEPT !.current_session = Some(gs)]]
      [] pos = "set_base_url" ->
           [wpc |-> "set_user_email",
            api_client |-> [c EXCEPT !.base_url = Some(get_base_url(gs))]]
      [] pos = "set_user_email" ->
           [wpc |-> "set_cell_id",
            api_client |-> [c EXCEPT !.user_email = Some(gs.user_email)]]
      [] pos = "set_cell_id" ->
           [wpc |-> "done",
            api_client |-> [c EXCEPT !.cell_id = Some(gs.cell_id)]]

\* _apply_session_to_client, the statement at position pos: ops is the
\* provider session, ogs the converted session once there is one, s and c are
\* agent.session and agent.api_client.  The position afterwards is "done"
\* when the call has returned and "failed" when it has raised.
_apply_session_to_client(pos, ops, ogs, t, s, c) ==
    CASE pos = "apply" ->
           LET conv == _convert_to_gong_session(ops, t)
           IN  IF ~conv.ok
               THEN [wpc |-> "failed", wgong |-> None, session |-> s,
                     api_client |-> c]
               ELSE [wpc |-> "assign_session", wgong |-> Some(conv.value),
                     session |-> s, api_client |-> c]
      [] pos = "assign_session" ->
           [wpc |-> "install_client", wgong |-> ogs, session |-> ogs,
            api_client |-> c]
      [] pos = "install_client" /\ c = None ->
           [wpc |-> "done", wgong |-> ogs, session |-> s,
            api_client |-> Some(NewClient(ogs))]
      [] OTHER ->
           LET r == client_set_session(pos, c[1], ogs[1])
           IN  [wpc |-> r.wpc, wgong |-> ogs, session |-> s,
                api_client |-> Some(r.api_client)]

\* the classification without lower-casing the message
Mut_IsAuthError(msg) ==
    \/ Contains(msg, SubAuthenticationFailed)
    \/ Contains(msg, SubSessionMayBeExpired)
    \/ Contains(msg, SubUnauthorized)
    \/ Contains(msg, Sub401)

\* the classification that takes every failure for an authentication failure
Mut_IsAuthError_Always(msg) ==
    TRUE

\* _execute_with_retry: is the exception an authentication error
IsAuthError(msg) ==
    LET error_message == Lower(msg)
    IN  \/ Contains(error_message, SubAuthenticationFailed)
        \/ Contains(error_message, SubSessionMayBeExpired)
        \/ Contains(error_message, SubUnauthorized)
        \/ Contains(error_message, Sub401)

\* the retry guard that lets the last attempt refresh as well
Mut_AttemptsRemain(att, maxr) ==
    att <= maxr

\* _execute_with_retry: "if attempt < max_retries"
AttemptsRemain(att, maxr) ==
    att < maxr

\* the handler that refreshes whatever the switch says
Mut_AutoRefreshAllowed(enabled) ==
    TRUE

\* _execute_with_retry: "if self.auto_refresh_enabled"
AutoRefreshAllowed(enabled) ==
    enabled

\* the handler that retries after a failed refresh as after a successful one
Mut_AfterRefresh(ok, att, maxr) ==
    IF att + 1 <= maxr THEN "invoke" ELSE "raised"

\* _execute_with_retry after the refresh: "continue" to the next attempt when
\* it returned, "break" to the final raise when it raised
AfterRefresh(ok, att, maxr) ==
    IF ok /\ att + 1 <= maxr THEN "invoke" ELSE "raised"

\* the loop that falls off its end and returns None instead of raising
Mut_AggregateError(name, maxr, last) ==
    Returned(None)

\* the GongAgentError raised at the end of _execute_with_retry
AggregateError(name, maxr, last) ==
    Raised("GongAgentError",
           [operation |-> name, attempts |-> maxr + 1, cause |-> last])

\* ------------------------------------------------------------------------
\* GongAPIClient._handle_rate_limiting (api_client/client.py)
\* ------------------------------------------------------------------------

\* self.min_request_interval = 0.1, in ticks of the clock (one tick is 0.05 s)
MinRequestInterval ==
    2

\* time.time() when the client is constructed: more than min_request_interval
\* after the 0 that last_request_time starts from
StartOfClock ==
    MinRequestInterval

\* the latest reading of time.time() that is explored
MaxClock ==
    5

\* the threads that call _handle_rate_limiting on one client
Threads ==
    {1, 2}

\* a thread that is not inside _handle_rate_limiting
Outside ==
    [pc |-> "outside", current_time |-> 0, time_since_last |-> 0,
     sleep_time |-> 0, wake |-> 0]

\* the sleep that is always a whole interval
Mut_SleepTime(time_since_last) ==
    IF time_since_last < MinRequestInterval
    THEN MinRequestInterval
    ELSE 0

\* the argument of time.sleep, 0 when time.sleep is not called
SleepTime(time_since_last) ==
    IF time_since_last < MinRequestInterval
    THEN MinRequestInterval - time_since_last
    ELSE 0

\* the history of returns with one more, the two latest kept
Returned2(log, entry) ==
    IF Len(log) < 2 THEN Append(log, entry) ELSE <<log[2], entry>>

\* ------------------------------------------------------------------------
\* GongAgent.extract_all_data (agent.py)
\* ------------------------------------------------------------------------

\* the object types in the order extract_all_data goes through them
ObjectTypes ==
    <<"calls", "users", "deals", "conversations", "library", "team_stats">>

\* extraction_result['data'] without a key
NoData ==
    [k \in {} |-> None]

\* no call of extract_all_data has begun
NoBatch ==
    [include |-> {}, position |-> 1, data |-> NoData, errors |-> <<>>,
     target_count |-> 0, successful_count |-> 0, user_email |-> <<>>,
     cell_id |-> <<>>, attempted |-> <<>>, result |-> None]

\* the limit on the calls of extract_all_data that are explored
MaxBatches ==
    2

\* the sets of include_* arguments that are True in those calls
IncludeChoices ==
    {{"calls", "users", "deals", "conversations", "library", "team_stats"},
     {"calls", "deals", "team_stats"},
     {"users"},
     {}}

\* how a call of extract_<type>() made with a session can end: it returns the
\* data, or _execute_with_retry raises after an auth failure or another
\* failure; extract_team_stats catches the failure of every metric and
\* returns the list of the metrics it got
TypeOutcomes(type) ==
    IF type = "team_stats"
    THEN {Returned([items |-> type])}
    ELSE {Returned([items |-> type]),
          AggregateError(type, 1, Some(MsgHttp401)),
          AggregateError(type, 1, Some(MsgHttp500))}

\* the block of one object type in which a failure is not recorded
Mut_ExtractType(b, type, o) ==
    IF type \notin b.include
    THEN b
    ELSE IF o.ok
    THEN [b EXCEPT !.data = [k \in DOMAIN b.data \cup {type} |->
                                IF k = type THEN o.value ELSE b.data[k]],
                   !.successful_count = @ + 1,
                   !.attempted = Append(@, [type |-> type, outcome |-> o])]
    ELSE [b EXCEPT !.attempted = Append(@, [type |-> type, outcome |-> o])]

\* the block of one object type in extract_all_data: "if include_<type>: try:
\* data[<type>] = self.extract_<type>(); successful_count += 1; except
\* Exception as e: errors.append(...)"; attempted is the history of the calls
ExtractType(b, type, o) ==
    IF type \notin b.include
    THEN b
    ELSE IF o.ok
    THEN [b EXCEPT !.data = [k \in DOMAIN b.data \cup {type} |->
                                IF k = type THEN o.value ELSE b.data[k]],
                   !.successful_count = @ + 1,
                   !.attempted = Append(@, [type |-> type, outcome |-> o])]
    ELSE [b EXCEPT !.errors = Append(@, [type |-> type, error |-> o]),
                   !.attempted = Append(@, [type |-> type, outcome |-> o])]

\* no call has been made yet
NoCall ==
    [called |-> FALSE]

\* the error arguments given to _update_extraction_stats: none, the text of
\* an exception raised without a message, and the texts the tests use
StatsErrors ==
    {None, Some(""), Some("Test error"), Some("Partial failure")}

\* Python's truth value of an Optional[str]
Truthy(ostr) ==
    ostr # None /\ ostr[1] # ""

\* _update_extraction_stats(successful, total, duration, error) on the
\* counters and last_error; average_duration is left out
_update_extraction_stats(stats, error) ==
    IF Truthy(error)
    THEN [stats EXCEPT !.total_extractions = @ + 1,
                       !.failed_extractions = @ + 1,
                       !.last_error = error]
    ELSE [stats EXCEPT !.total_extractions = @ + 1,
                       !.successful_extractions = @ + 1]

\* ------------------------------------------------------------------------
\* State
\* ------------------------------------------------------------------------

VARIABLES
    now,                    \* the clock (datetime.now())
    session,                \* GongAgent.session, optional
    api_client,             \* GongAgent.api_client, optional: its
                            \* auth_manager.current_session, base_url,
                            \* user_email, cell_id
    auto_refresh_enabled,   \* GongAgent.auto_refresh_enabled
    pc,                     \* where the caller of _execute_with_retry is
    attempt,                \* the loop variable of _execute_with_retry
    max_retries,            \* its parameter
    op_kind,                \* the operation passed: "request" or "custom"
    loop_running,           \* asyncio's loop.is_running() in the caller
    last_exception,         \* optional message of the last exception
    outcome,                \* optional: what _execute_with_retry returned
                            \* or raised
    wpc,                    \* where the run of _ensure_authenticated is
    wsession,               \* the provider session it holds, optional
    wgong,                  \* the converted session it holds, optional
    opLog,                  \* history: one entry per invocation of the
                            \* operation in the current call
    refreshCalls,           \* history: refreshes started in the current call
    refreshOutcome,         \* history: "none", "ok", "failed" or "timeout"
    delivered,              \* history: the provider handed a usable capture
                            \* to the latest refresh of the current call
    preRefresh,             \* history: agent.session and api_client when
                            \* the latest refresh of the current call began
    heap,                   \* the GongSession objects a program using a
                            \* GongAuthenticationManager of its own holds;
                            \* an object's reference is its index
    mgr_current_session,    \* that manager's current_session: an optional
                            \* reference
    mgr_session_cache,      \* that manager's session_cache: session_id to
                            \* reference
    mgr_result,             \* history: that manager's latest operation, its
                            \* session argument, the tokens it derived and
                            \* what it returned or raised
    clock,                  \* time.time(), in halves of min_request_interval
    last_request_time,      \* GongAPIClient.last_request_time
    callers,                \* the threads inside _handle_rate_limiting: where
                            \* each is and its local variables
    acquired,               \* history: the two latest returns of
                            \* _handle_rate_limiting
    batch_pc,               \* where the caller of extract_all_data is
    batch,                  \* its arguments, locals and extraction_result
    extraction_stats,       \* GongAgent.extraction_stats
    stats_call,             \* history: the latest _update_extraction_stats call
    set_result              \* history: the latest set_session call and how it ended

agentVars ==
    <<session, api_client, auto_refresh_enabled>>

callVars ==
    <<pc, attempt, max_retries, op_kind, loop_running, last_exception, outcome>>

workerVars ==
    <<wpc, wsession, wgong>>

histVars ==
    <<opLog, refreshCalls, refreshOutcome, delivered, preRefresh>>

mgrVars ==
    <<heap, mgr_current_session, mgr_session_cache, mgr_result>>

rateVars ==
    <<clock, last_request_time, callers, acquired>>

batchVars ==
    <<batch_pc, batch, extraction_stats, stats_call>>

setVars ==
    <<set_result>>

vars ==
    <<now, session, api_client, auto_refresh_enabled, pc, attempt,
      max_retries, op_kind, loop_running, last_exception, outcome, wpc,
      wsession, wgong, opLog, refreshCalls, refreshOutcome, delivered,
      preRefresh, heap, mgr_current_session, mgr_session_cache, mgr_result,
      clock, last_request_time, callers, acquired, batch_pc, batch,
      extraction_stats, stats_call, set_result>>

\* a session with one unexpired token, as a caller installs it
SessionActive ==
    GongSession([prefix |-> "gong_session", stamp |-> 0], EmailAB, CellUS,
                <<Token("cell_jwt", "eyJ.old", 5, 1, FALSE, CellUS, EmailAB)>>,
                <<>>, 0)

\* a session all of whose tokens are expired
SessionAllExpired ==
    GongSession([prefix |-> "gong_session", stamp |-> 0], EmailAB, CellUS,
                <<Token("cell_jwt", "eyJ.dead", 1, 1, TRUE, CellUS, EmailAB)>>,
                <<>>, 0)

InstallableSessions ==
    {SessionActive, SessionAllExpired}

\* GongAgent.__init__
Init ==
    /\ now = 1
    /\ session = None
    /\ api_client = None
    /\ auto_refresh_enabled = TRUE
    /\ pc = "idle"
    /\ attempt = 0
    /\ max_retries = 1
    /\ op_kind = "request"
    /\ loop_running = FALSE
    /\ last_exception = None
    /\ outcome = None
    /\ wpc = "none"
    /\ wsession = None
    /\ wgong = None
    /\ opLog = <<>>
    /\ refreshCalls = 0
    /\ refreshOutcome = "none"
    /\ delivered = FALSE
    /\ preRefresh = [session |-> None, api_client |-> None]
    /\ heap = <<>>
    /\ mgr_current_session = None
    /\ mgr_session_cache = EmptyCache
    /\ mgr_result = NoResult
    /\ clock = StartOfClock
    /\ last_request_time = 0
    /\ callers = [th \in Threads |-> Outside]
    /\ acquired = <<>>
    /\ batch_pc = "idle"
    /\ batch = NoBatch
    /\ extraction_stats = [total_extractions |-> 0, successful_extractions |-> 0,
                           failed_extractions |-> 0, last_error |-> None]
    /\ stats_call = NoCall
    /\ set_result = NoCall

\* ------------------------------------------------------------------------
\* Actions
\* ------------------------------------------------------------------------

\* time passes
Tick ==
    /\ now < MaxNow
    /\ now' = now + 1
    /\ UNCHANGED <<agentVars, callVars, workerVars, histVars, mgrVars, rateVars, batchVars, setVars>>

\* a caller gives the agent a session and a client around it, as the
\* agent_with_session fixture does
InstallSession ==
    /\ pc = "idle"
    /\ \E s \in InstallableSessions :
          /\ session' = Some(s)
          /\ api_client' = Some(NewClient(Some(s)))
    /\ UNCHANGED <<now, auto_refresh_enabled, callVars, workerVars, histVars,
                   mgrVars, rateVars, batchVars, setVars>>

\* enable_auto_refresh
enable_auto_refresh ==
    /\ pc = "idle"
    /\ ~auto_refresh_enabled
    /\ auto_refresh_enabled' = TRUE
    /\ UNCHANGED <<now, session, api_client, callVars, workerVars, histVars,
                   mgrVars, rateVars, batchVars, setVars>>

\* disable_auto_refresh
disable_auto_refresh ==
    /\ pc = "idle"
    /\ auto_refresh_enabled
    /\ auto_refresh_enabled' = FALSE
    /\ UNCHANGED <<now, session, api_client, callVars, workerVars, histVars,
                   mgrVars, rateVars, batchVars, setVars>>

\* a call of _execute_with_retry(operation_func, name, max_retries) begins;
\* with max_retries < 0 the loop body never runs and the final raise follows
StartRun ==
    /\ pc = "idle"
    /\ \E n \in -1..MaxRetriesBound, k \in {"request", "custom"}, lr \in BOOLEAN :
          /\ max_retries' = n
          /\ op_kind' = k
          /\ loop_running' = lr
          /\ pc' = IF n + 1 > 0 THEN "invoke" ELSE "raised"
          /\ outcome' = IF n + 1 > 0 THEN None ELSE Some(AggregateError(k, n, None))
    /\ attempt' = 0
    /\ last_exception' = None
    /\ opLog' = <<>>
    /\ refreshCalls' = 0
    /\ refreshOutcome' = "none"
    /\ delivered' = FALSE
    /\ preRefresh' = [session |-> session, api_client |-> api_client]
    /\ UNCHANGED <<now, agentVars, workerVars, mgrVars, rateVars, batchVars, setVars>>

\* what one invocation of the operation can do: None when it returns, the
\* message when it raises.  "request" is an api_client call that ends in
\* GongAPIClient._make_request; "custom" is any other callable.
OpOutcomes(kind, c) ==
    IF kind = "custom"
    THEN {None, Some(Msg401Unauthorized), Some(MsgUpperUnauthorized),
          Some(MsgApiError), Some(MsgAllExpired)}
    ELSE IF c = None
    THEN {Some(MsgNoneType)}
    ELSE IF c[1].current_session = None
    THEN {Some(MsgNoActiveSession)}
    ELSE IF ~is_session_valid(c[1].current_session)
    THEN {Some(MsgNoValidSession)}
    ELSE {None, Some(MsgHttp401), Some(MsgRateLimit), Some(MsgHttp500)}

\* the session the api client holds, as the operation reads it
CurrentSession(c) ==
    IF c = None THEN None ELSE c[1].current_session

\* one pass through the try block of _execute_with_retry and, when the
\* operation raises, through the except clause up to the start of the refresh
InvokeOperation ==
    /\ pc = "invoke"
    /\ \E o \in OpOutcomes(op_kind, api_client) :
          /\ opLog' = Append(opLog, [raised |-> o, read |-> CurrentSession(api_client)])
          /\ IF o = None
             THEN /\ pc' = "returned"
                  /\ outcome' = Some(Returned([invocation |-> Len(opLog) + 1]))
                  /\ UNCHANGED <<last_exception, wpc, refreshCalls, preRefresh,
                                 delivered>>
             ELSE /\ last_exception' = o
                  /\ IF /\ IsAuthError(o[1])
                        /\ AttemptsRemain(attempt, max_retries)
                        /\ AutoRefreshAllowed(auto_refresh_enabled)
                     THEN /\ pc' = IF loop_running THEN "future_result" ELSE "asyncio_run"
                          /\ wpc' = "load_session"
                          /\ refreshCalls' = refreshCalls + 1
                          /\ preRefresh' = [session |-> session, api_client |-> api_client]
                          /\ delivered' = FALSE
                          /\ outcome' = None
                     ELSE /\ pc' = "raised"
                          /\ outcome' = Some(AggregateError(op_kind, max_retries, o))
                          /\ UNCHANGED <<wpc, refreshCalls, preRefresh, delivered>>
    /\ UNCHANGED <<now, agentVars, attempt, max_retries, op_kind, loop_running,
                   wsession, wgong, refreshOutcome, mgrVars, rateVars, batchVars, setVars>>

\* _ensure_authenticated: godcapture.load_session returns or raises (a
\* failure to reach the provider through self.godcapture is a raise); a
\* provider that never answers is this action never taken
ProviderLoad ==
    /\ wpc = "load_session"
    /\ \/ \E r \in LoadResults :
             /\ wsession' = r
             /\ wpc' = IF r # None /\ r[1].valid THEN "apply" ELSE "reauthenticate"
             /\ delivered' = (delivered \/ (UsableCapture(r) /\ r[1].valid))
       \/ /\ wpc' = "failed"
          /\ UNCHANGED <<wsession, delivered>>
    /\ UNCHANGED <<now, agentVars, callVars, wgong, opLog, refreshCalls,
                   refreshOutcome, preRefresh, mgrVars, rateVars, batchVars, setVars>>

\* _ensure_authenticated: godcapture.reauthenticate returns or raises
ProviderReauth ==
    /\ wpc = "reauthenticate"
    /\ \/ \E r \in ReauthResults :
             /\ wsession' = r
             /\ wpc' = "apply"
             /\ delivered' = (delivered \/ UsableCapture(r))
       \/ /\ wpc' = "failed"
          /\ UNCHANGED <<wsession, delivered>>
    /\ UNCHANGED <<now, agentVars, callVars, wgong, opLog, refreshCalls,
                   refreshOutcome, preRefresh, mgrVars, rateVars, batchVars, setVars>>

\* _ensure_authenticated: the next statement of
\* _apply_session_to_client(session)
ApplySession ==
    /\ wpc \in ApplyPositions
    /\ LET r == _apply_session_to_client(wpc, wsession, wgong, now, session,
                                         api_client)
       IN  /\ session' = r.session
           /\ api_client' = r.api_client
           /\ wgong' = r.wgong
           /\ wpc' = r.wpc
    /\ UNCHANGED <<now, auto_refresh_enabled, callVars, wsession, histVars,
                   mgrVars, rateVars, batchVars, setVars>>

\* the caller after the refresh: on to the next attempt, or the final raise
FinishRefresh(ok, how) ==
    /\ pc' = AfterRefresh(ok, attempt, max_retries)
    /\ attempt' = IF pc' = "invoke" THEN attempt + 1 ELSE attempt
    /\ outcome' = IF pc' = "invoke"
                  THEN None
                  ELSE Some(AggregateError(op_kind, max_retries, last_exception))
    /\ refreshOutcome' = how
    /\ wpc' = "none"
    /\ wsession' = None
    /\ wgong' = None
    /\ UNCHANGED <<now, agentVars, max_retries, op_kind, loop_running,
                   last_exception, opLog, refreshCalls, delivered, preRefresh,
                   mgrVars, rateVars, batchVars, setVars>>

\* no running loop: asyncio.run(self._ensure_authenticated()) in the caller's
\* own thread returns or raises
AsyncioRunReturns ==
    /\ pc = "asyncio_run"
    /\ wpc \in {"done", "failed"}
    /\ FinishRefresh(wpc = "done", IF wpc = "done" THEN "ok" ELSE "failed")

\* running loop: future.result(timeout=300) returns or re-raises what the
\* worker raised, and the executor is shut down
FutureResultReturns ==
    /\ pc = "future_result"
    /\ wpc \in {"done", "failed"}
    /\ FinishRefresh(wpc = "done", IF wpc = "done" THEN "ok" ELSE "failed")

\* running loop: future.result(timeout=300) raises TimeoutError while the
\* worker has not finished; leaving the with block then waits for the worker
\* (ThreadPoolExecutor.__exit__ is shutdown(wait=True))
FutureResultTimeout ==
    /\ pc = "future_result"
    /\ wpc \notin {"done", "failed"}
    /\ pc' = "executor_shutdown"
    /\ refreshOutcome' = "timeout"
    /\ UNCHANGED <<now, agentVars, attempt, max_retries, op_kind, loop_running,
                   last_exception, outcome, workerVars, opLog, refreshCalls,
                   delivered, preRefresh, mgrVars, rateVars, batchVars, setVars>>

\* the worker has finished, the with block is left and the TimeoutError
\* reaches "except Exception as refresh_error"
ExecutorShutdownReturns ==
    /\ pc = "executor_shutdown"
    /\ wpc \in {"done", "failed"}
    /\ FinishRefresh(FALSE, "timeout")

\* the caller takes the result or the error and may call again
CallEnds ==
    /\ pc \in {"returned", "raised"}
    /\ pc' = "idle"
    /\ UNCHANGED <<now, agentVars, attempt, max_retries, op_kind, loop_running,
                   last_exception, outcome, workerVars, histVars, mgrVars, rateVars, batchVars, setVars>>

Next ==
    \/ Tick
    \/ InstallSession
    \/ enable_auto_refresh
    \/ disable_auto_refresh
    \/ StartRun
    \/ InvokeOperation
    \/ ProviderLoad
    \/ ProviderReauth
    \/ ApplySession
    \/ AsyncioRunReturns
    \/ FutureResultReturns
    \/ FutureResultTimeout
    \/ ExecutorShutdownReturns
    \/ CallEnds

\* ------------------------------------------------------------------------
\* A program that uses a GongAuthenticationManager of its own
\* ------------------------------------------------------------------------

\* the decoded payload of a JWT artifact: expiry and optional cell
Payload(exp, ocell) ==
    [exp |-> Some(exp), iat |-> Some(TimestampMin), jti |-> Some("j"),
     gu |-> Some(EmailAB), cell |-> ocell]

\* an artifact of a JWT cookie as the analysis lists it
JwtArtifact(type, name, value, exp, ocell) ==
    [type |-> type, name |-> Some(name), value |-> value,
     decoded_value |-> Some(Payload(exp, ocell))]

\* a token that stays unexpired
ArtifactLive ==
    JwtArtifact("cookie_cell_jwt", "cell_jwt", "eyJ.live", TimestampMax, Some(CellUS))

\* a token that expires when the clock passes TimestampMin
ArtifactOld ==
    JwtArtifact("cookie_last_login_jwt", "last_login_jwt", "eyJ.old",
                TimestampMin, Some(CellUS))

\* a token without a cell claim, expiring like ArtifactOld
ArtifactNoCell ==
    JwtArtifact("cookie_cell_jwt", "cell_jwt", "eyJ.nocell", TimestampMin, None)

\* a token whose cell claim is "us", expiring like ArtifactOld
ArtifactShortCell ==
    JwtArtifact("cookie_cell_jwt", "cell_jwt", "eyJ.short", TimestampMin,
                Some(<<"u", "s">>))

\* a JWT cookie the analysis could not decode
ArtifactUndecoded ==
    [type |-> "cookie_cell_jwt", name |-> Some("cell_jwt"), value |-> "eyJ.raw",
     decoded_value |-> None]

\* a session cookie
ArtifactCookie ==
    [type |-> "cookie_gong_session", name |-> Some("g-session"), value |-> "x",
     decoded_value |-> None]

\* an artifact of a kind the manager does not read
ArtifactOther ==
    [type |-> "jwt_token", name |-> None, value |-> "eyJ.other",
     decoded_value |-> None]

\* the artifact lists handed to extract_session_from_analysis_data
ArtifactLists ==
    {<<>>, <<ArtifactOther>>, <<ArtifactUndecoded, ArtifactCookie>>,
     <<ArtifactOld>>, <<ArtifactLive, ArtifactCookie>>,
     <<ArtifactOld, ArtifactLive>>, <<ArtifactNoCell>>,
     <<ArtifactNoCell, ArtifactOld>>, <<ArtifactShortCell>>}

\* the analysis_data arguments: None, a dict without 'artifacts', a dict
\* with an artifact list
AnalysisInputs ==
    {None, Some([artifacts |-> None])}
        \cup {Some([artifacts |-> Some(l)]) : l \in ArtifactLists}

\* the sessions a caller constructs: the payload.exp of their tokens and
\* their is_active
Constructible ==
    {[exps |-> <<>>, active |-> TRUE],
     [exps |-> <<TimestampMin>>, active |-> FALSE],
     [exps |-> <<TimestampMin, TimestampMax>>, active |-> TRUE],
     [exps |-> <<TimestampMin, TimestampMin, TimestampMax>>, active |-> TRUE]}

\* the raw_token of those tokens, by position
ConstructibleRaw ==
    <<"eyJ.c1", "eyJ.c2", "eyJ.c3">>

\* the session arguments of the manager's methods: None or an object
SessionArgs ==
    {None} \cup {Some(r) : r \in 1..Len(heap)}

\* "session or self.current_session": an optional reference
TargetRef(arg) ==
    IF arg # None THEN arg ELSE mgr_current_session

\* the object behind an optional reference
Deref(oref) ==
    IF oref = None THEN None ELSE Some(heap[oref[1]])

\* a caller constructs a GongSession of its own; the validator of each
\* GongAuthenticationToken sets is_expired from the clock at that moment
ConstructSession ==
    /\ Len(heap) < MaxSessions
    /\ \E c \in Constructible :
          LET tokens == [i \in 1..Len(c.exps) |->
                            Token("cell_jwt", ConstructibleRaw[i], c.exps[i],
                                  TimestampMin, now > c.exps[i], CellUS, EmailAB)]
              s == [GongSession([prefix |-> "caller", stamp |-> now], EmailAB,
                                CellUS, tokens, <<>>, now)
                        EXCEPT !.is_active = c.active]
          IN  heap' = Append(heap, s)
    /\ UNCHANGED <<now, agentVars, callVars, workerVars, histVars, rateVars, batchVars, setVars,
                   mgr_current_session, mgr_session_cache, mgr_result>>

\* the build that forgets the current session before it starts
Mut_BuildFrom(ad) ==
    LET r == extract_session_from_analysis_data(ad, now)
        toks == IF ad = None \/ ad[1].artifacts = None
                THEN <<>>
                ELSE ArtifactTokens(ad[1].artifacts[1], now)
        ref == Len(heap) + 1
    IN  IF r.ok
        THEN /\ Len(heap) < MaxSessions
             /\ heap' = Append(heap, r.value)
             /\ mgr_current_session' = Some(ref)
             /\ mgr_session_cache' =
                    CachePut(mgr_session_cache, r.value.session_id, ref)
             /\ mgr_result' = [op |-> "build", target |-> None,
                               jwt_tokens |-> toks, result |-> Returned(ref)]
        ELSE /\ mgr_result' = [op |-> "build", target |-> None,
                               jwt_tokens |-> toks, result |-> r]
             /\ mgr_current_session' = None
             /\ UNCHANGED <<heap, mgr_session_cache>>

\* extract_session_from_analysis_data(ad): the session is built, validated,
\* made current and cached, or the method raises
BuildFrom(ad) ==
    LET r == extract_session_from_analysis_data(ad, now)
        toks == IF ad = None \/ ad[1].artifacts = None
                THEN <<>>
                ELSE ArtifactTokens(ad[1].artifacts[1], now)
        ref == Len(heap) + 1
    IN  IF r.ok
        THEN /\ Len(heap) < MaxSessions
             /\ heap' = Append(heap, r.value)
             /\ mgr_current_session' = Some(ref)
             /\ mgr_session_cache' =
                    CachePut(mgr_session_cache, r.value.session_id, ref)
             /\ mgr_result' = [op |-> "build", target |-> None,
                               jwt_tokens |-> toks, result |-> Returned(ref)]
        ELSE /\ mgr_result' = [op |-> "build", target |-> None,
                               jwt_tokens |-> toks, result |-> r]
             /\ UNCHANGED <<heap, mgr_current_session, mgr_session_cache>>

\* extract_session_from_analysis_data(analysis_data)
BuildSession ==
    /\ \E ad \in AnalysisInputs : BuildFrom(ad)
    /\ UNCHANGED <<now, agentVars, callVars, workerVars, histVars, rateVars, batchVars, setVars>>

\* the body of refresh_session once it has a target: the object is changed
\* in place, stored in the cache and, when it equals the current session,
\* made current
RefreshObject(op, arg, ref) ==
    LET r == refresh_session(heap[ref], now)
        h == [heap EXCEPT ![ref] = r.session]
    IN  /\ heap' = h
        /\ mgr_session_cache' =
               IF r.stored
               THEN CachePut(mgr_session_cache, r.session.session_id, ref)
               ELSE mgr_session_cache
        /\ mgr_current_session' =
               IF /\ r.stored
                  /\ mgr_current_session # None
                  /\ h[ref] = h[mgr_current_session[1]]
               THEN Some(ref)
               ELSE mgr_current_session
        /\ mgr_result' = [op |-> op, target |-> arg, jwt_tokens |-> <<>>,
                          result |-> Returned(ref)]

\* a manager method found neither an argument nor a current session
NoTarget(op, arg, msg) ==
    /\ mgr_result' = [op |-> op, target |-> arg, jwt_tokens |-> <<>>,
                      result |-> Raised("GongAuthenticationError", msg)]
    /\ UNCHANGED <<heap, mgr_current_session, mgr_session_cache>>

\* refresh_session(session)
RefreshSession ==
    /\ \E arg \in SessionArgs :
          IF TargetRef(arg) = None
          THEN NoTarget("refresh_session", arg, "No session available to refresh")
          ELSE RefreshObject("refresh_session", arg, TargetRef(arg)[1])
    /\ UNCHANGED <<now, agentVars, callVars, workerVars, histVars, rateVars, batchVars, setVars>>

\* auto_refresh_if_needed(session)
AutoRefresh ==
    /\ \E arg \in SessionArgs :
          IF TargetRef(arg) = None
          THEN NoTarget("auto_refresh_if_needed", arg, "No session available for auto-refresh")
          ELSE IF is_session_expired(Deref(TargetRef(arg)))
          THEN RefreshObject("auto_refresh_if_needed", arg, TargetRef(arg)[1])
          ELSE /\ mgr_result' = [op |-> "auto_refresh_if_needed", target |-> arg,
                                 jwt_tokens |-> <<>>,
                                 result |-> Returned(TargetRef(arg)[1])]
               /\ UNCHANGED <<heap, mgr_current_session, mgr_session_cache>>
    /\ UNCHANGED <<now, agentVars, callVars, workerVars, histVars, rateVars, batchVars, setVars>>

\* is_session_expired(session)
CheckExpired ==
    /\ \E arg \in SessionArgs :
          mgr_result' = [op |-> "is_session_expired", target |-> arg,
                         jwt_tokens |-> <<>>,
                         result |-> Returned(is_session_expired(Deref(TargetRef(arg))))]
    /\ UNCHANGED <<now, agentVars, callVars, workerVars, histVars, rateVars, batchVars, setVars, heap,
                   mgr_current_session, mgr_session_cache>>

\* the manager builds the sessions it works on
NextManager ==
    \/ Tick
    \/ BuildSession
    \/ RefreshSession
    \/ AutoRefresh
    \/ CheckExpired

\* the manager is handed sessions its caller constructed
NextOwnSessions ==
    \/ Tick
    \/ ConstructSession
    \/ RefreshSession
    \/ AutoRefresh
    \/ CheckExpired

\* ------------------------------------------------------------------------
\* The same program, reading what the analysis of a capture can contain
\* ------------------------------------------------------------------------

\* "a.b@"
EmailNoDomain ==
    <<"a", ".", "b", "@">>

\* "c@d.io"
EmailCD ==
    <<"c", "@", "d", ".", "i", "o">>

\* "eu-2"
CellEU ==
    <<"e", "u", "-", "2">>

\* the decoded payload of a JWT artifact, each claim optional
PayloadOf(oexp, oiat, ojti, ogu, ocell) ==
    [exp |-> oexp, iat |-> oiat, jti |-> ojti, gu |-> ogu, cell |-> ocell]

\* a cell_jwt artifact with that raw value and payload
ArtifactWith(value, payload) ==
    [type |-> "cookie_cell_jwt", name |-> Some("cell_jwt"), value |-> value,
     decoded_value |-> Some(payload)]

\* a token whose gu claim has nothing after the '@'
ArtifactNoDomain ==
    ArtifactWith("eyJ.nodomain",
                 PayloadOf(Some(TimestampMax), Some(TimestampMin), Some("j"),
                           Some(EmailNoDomain), Some(CellUS)))

\* a token whose iat claim is later than its exp claim
ArtifactIssuedLate ==
    ArtifactWith("eyJ.late",
                 PayloadOf(Some(TimestampMax - 1), Some(TimestampMax), Some("j"),
                           Some(EmailAB), Some(CellUS)))

\* a token of another user in another cell
ArtifactEU ==
    ArtifactWith("eyJ.eu",
                 PayloadOf(Some(TimestampMax), Some(TimestampMin), Some("j"),
                           Some(EmailCD), Some(CellEU)))

\* payloads GongJWTPayload rejects: no exp, iat out of range, no jti, no gu
ArtifactNoExp ==
    ArtifactWith("eyJ.noexp",
                 PayloadOf(None, Some(TimestampMin), Some("j"), Some(EmailAB),
                           Some(CellUS)))

ArtifactIatRange ==
    ArtifactWith("eyJ.iatrange",
                 PayloadOf(Some(TimestampMax), Some(TimestampMax + 1), Some("j"),
                           Some(EmailAB), Some(CellUS)))

ArtifactNoJti ==
    ArtifactWith("eyJ.nojti",
                 PayloadOf(Some(TimestampMax), Some(TimestampMin), None,
                           Some(EmailAB), Some(CellUS)))

ArtifactNoGu ==
    ArtifactWith("eyJ.nogu",
                 PayloadOf(Some(TimestampMax), Some(TimestampMin), Some("j"), None,
                           Some(CellUS)))

\* a session cookie the capture recorded with an empty value
ArtifactEmptyCookie ==
    [type |-> "cookie_aws_alb", name |-> Some("AWSALB"), value |-> "",
     decoded_value |-> None]

\* the artifact lists of those analyses
ExtractionLists ==
    {<<ArtifactNoDomain>>,
     <<ArtifactLive, ArtifactLive>>,
     <<ArtifactIssuedLate>>,
     <<ArtifactNoExp, ArtifactIatRange, ArtifactLive>>,
     <<ArtifactNoJti, ArtifactNoGu>>,
     <<ArtifactNoCell, ArtifactLive, ArtifactEU>>,
     <<ArtifactEU, ArtifactOld, ArtifactCookie, ArtifactEmptyCookie>>,
     <<ArtifactNoCell>>,
     <<ArtifactOld>>}

\* extract_session_from_analysis_data on such an analysis
BuildExtracted ==
    /\ \E l \in ExtractionLists : BuildFrom(Some([artifacts |-> Some(l)]))
    /\ UNCHANGED <<now, agentVars, callVars, workerVars, histVars, rateVars, batchVars, setVars>>

\* get_session_headers(session)
GetSessionHeaders ==
    /\ \E arg \in SessionArgs :
          mgr_result' = [op |-> "get_session_headers", target |-> arg,
                         jwt_tokens |-> <<>>,
                         result |-> get_session_headers(Deref(TargetRef(arg)))]
    /\ UNCHANGED <<now, agentVars, callVars, workerVars, histVars, rateVars, batchVars, setVars, heap,
                   mgr_current_session, mgr_session_cache>>

\* the manager builds sessions and the headers of requests
NextExtraction ==
    \/ Tick
    \/ BuildExtracted
    \/ GetSessionHeaders

\* ------------------------------------------------------------------------
\* Threads that go through _handle_rate_limiting of one GongAPIClient
\* ------------------------------------------------------------------------

\* time.time() advances
TimePasses ==
    /\ clock < MaxClock
    /\ clock' = clock + 1
    /\ UNCHANGED <<now, agentVars, callVars, workerVars, histVars, mgrVars,
                   last_request_time, callers, acquired, batchVars, setVars>>

\* current_time = time.time()
ReadClock(th) ==
    /\ callers[th].pc = "outside"
    /\ callers' = [callers EXCEPT ![th] = [Outside EXCEPT !.pc = "read_last",
                                                          !.current_time = clock]]
    /\ UNCHANGED <<now, agentVars, callVars, workerVars, histVars, mgrVars,
                   clock, last_request_time, acquired, batchVars, setVars>>

\* time_since_last = current_time - self.last_request_time, the comparison
\* with min_request_interval and, when it is below, the call of time.sleep
ReadLast(th) ==
    /\ callers[th].pc = "read_last"
    /\ LET time_since_last == callers[th].current_time - last_request_time
           sleep_time == SleepTime(time_since_last)
       IN  callers' = [callers EXCEPT
                          ![th].time_since_last = time_since_last,
                          ![th].sleep_time = sleep_time,
                          ![th].wake = clock + sleep_time,
                          ![th].pc = IF time_since_last < MinRequestInterval
                                     THEN "sleep"
                                     ELSE "store"]
    /\ UNCHANGED <<now, agentVars, callVars, workerVars, histVars, mgrVars,
                   clock, last_request_time, acquired, batchVars, setVars>>

\* time.sleep(sleep_time) returns, not before sleep_time has passed
Wake(th) ==
    /\ callers[th].pc = "sleep"
    /\ clock >= callers[th].wake
    /\ callers' = [callers EXCEPT ![th].pc = "store"]
    /\ UNCHANGED <<now, agentVars, callVars, workerVars, histVars, mgrVars,
                   clock, last_request_time, acquired, batchVars, setVars>>

\* self.last_request_time = time.time(), and the method returns
StoreLast(th) ==
    /\ callers[th].pc = "store"
    /\ last_request_time' = clock
    /\ acquired' = Returned2(acquired,
                             [thread |-> th,
                              started |-> callers[th].current_time,
                              sleep_time |-> callers[th].sleep_time,
                              returned |-> clock])
    /\ callers' = [callers EXCEPT ![th] = Outside]
    /\ UNCHANGED <<now, agentVars, callVars, workerVars, histVars, mgrVars,
                   clock, batchVars, setVars>>

\* one thread's way through _handle_rate_limiting
Caller(th) ==
    \/ ReadClock(th)
    \/ ReadLast(th)
    \/ Wake(th)
    \/ StoreLast(th)

\* a client used by one thread
NextSingleCaller ==
    \/ TimePasses
    \/ Caller(1)

\* a client shared by two threads
NextSharedCallers ==
    \/ TimePasses
    \/ \E th \in Threads : Caller(th)

\* ------------------------------------------------------------------------
\* A caller of GongAgent.extract_all_data
\* ------------------------------------------------------------------------

\* extract_all_data(include_...) begins: without a session it raises, with one
\* it sets up extraction_result and counts the target objects
StartBatch ==
    /\ batch_pc # "extracting"
    /\ extraction_stats.total_extractions < MaxBatches
    /\ \E inc \in IncludeChoices :
          IF session = None
          THEN /\ batch' = [NoBatch EXCEPT
                               !.include = inc,
                               !.result = Some(Raised("GongAgentError",
                                                      "No session available"))]
               /\ batch_pc' = "done"
          ELSE /\ batch' = [NoBatch EXCEPT
                               !.include = inc,
                               !.target_count = Cardinality(inc),
                               !.user_email = session[1].user_email,
                               !.cell_id = session[1].cell_id]
               /\ batch_pc' = "extracting"
    /\ UNCHANGED <<now, agentVars, callVars, workerVars, histVars, mgrVars,
                   rateVars, extraction_stats, stats_call, setVars>>

\* the block of the next object type
ExtractStep ==
    /\ batch_pc = "extracting"
    /\ batch.position <= Len(ObjectTypes)
    /\ \E o \in TypeOutcomes(ObjectTypes[batch.position]) :
          batch' = [ExtractType(batch, ObjectTypes[batch.position], o)
                       EXCEPT !.position = @ + 1]
    /\ UNCHANGED <<now, agentVars, callVars, workerVars, histVars, mgrVars,
                   rateVars, batch_pc, extraction_stats, stats_call, setVars>>

\* the final metrics, _update_extraction_stats and the return
FinishBatch ==
    /\ batch_pc = "extracting"
    /\ batch.position > Len(ObjectTypes)
    /\ batch' = [batch EXCEPT !.result = Some(Returned(
           [metadata |-> [user_email |-> batch.user_email,
                          cell_id |-> batch.cell_id,
                          target_objects |-> batch.target_count,
                          successful_objects |-> batch.successful_count,
                          failed_objects |->
                              batch.target_count - batch.successful_count,
                          errors |-> batch.errors],
            data |-> batch.data]))]
    /\ extraction_stats' = _update_extraction_stats(extraction_stats, None)
    /\ stats_call' = [called |-> TRUE, error |-> None]
    /\ batch_pc' = "done"
    /\ UNCHANGED <<now, agentVars, callVars, workerVars, histVars, mgrVars,
                   rateVars, setVars>>

\* an agent that is given sessions and asked for everything
NextBatch ==
    \/ InstallSession
    \/ StartBatch
    \/ ExtractStep
    \/ FinishBatch

\* _update_extraction_stats called on the agent directly, as the tests do,
\* between two calls of extract_all_data
UpdateExtractionStats ==
    /\ batch_pc # "extracting"
    /\ extraction_stats.total_extractions < MaxBatches
    /\ \E error \in StatsErrors :
          /\ extraction_stats' = _update_extraction_stats(extraction_stats, error)
          /\ stats_call' = [called |-> TRUE, error |-> error]
    /\ UNCHANGED <<now, agentVars, callVars, workerVars, histVars, mgrVars,
                   rateVars, batch_pc, batch, setVars>>

\* an agent whose statistics are updated by extract_all_data and by hand
NextStats ==
    \/ InstallSession
    \/ StartBatch
    \/ ExtractStep
    \/ FinishBatch
    \/ UpdateExtractionStats

\* ------------------------------------------------------------------------
\* set_session on the agent and on its client
\* ------------------------------------------------------------------------

\* a session of another user in another cell, with one unexpired token
SessionOtherUser ==
    GongSession([prefix |-> "gong_session", stamp |-> 0], EmailCD, CellEU,
                <<Token("cell_jwt", "eyJ.new", 5, 1, FALSE, CellEU, EmailCD)>>,
                <<>>, 0)

\* a session of that user all of whose tokens are expired
SessionOtherExpired ==
    GongSession([prefix |-> "gong_session", stamp |-> 0], EmailCD, CellEU,
                <<Token("cell_jwt", "eyJ.gone", 1, 1, TRUE, CellEU, EmailCD)>>,
                <<>>, 0)

\* the sessions callers hand to set_session
SetSessionArgs ==
    InstallableSessions \cup {SessionOtherUser, SessionOtherExpired}

\* GongAPIClient.set_session(gs) on client c from its first statement to its
\* return ("done") or its raise ("failed")
RECURSIVE RunSetSession(_, _, _)
RunSetSession(pos, c, gs) ==
    IF pos \in {"done", "failed"}
    THEN [wpc |-> pos, api_client |-> c]
    ELSE LET r == client_set_session(pos, c, gs)
         IN  RunSetSession(r.wpc, r.api_client, gs)

\* the GongAgentError of GongAgent.set_session around the exception it caught
SetSessionError(cause) ==
    Raised("GongAgentError", [text |-> "Failed to set session", cause |-> cause])

\* GongAgent.set_session(gs) with gs a GongSession, on agent.session s and
\* agent.api_client c.  GongAgent never assigns self.auth_manager; has_manager
\* says whether the IServiceAdapter base, which is not part of this
\* repository, provides the attribute.  Such a manager is not the one the
\* client holds.
agent_set_session(has_manager, s, c, gs) ==
    IF ~has_manager \/ c = None
    THEN [session |-> Some(gs), api_client |-> c,
          result |-> SetSessionError("AttributeError")]
    ELSE LET r == RunSetSession("install_client", c[1], gs)
         IN  [session |-> Some(gs), api_client |-> Some(r.api_client),
              result |-> IF r.wpc = "failed"
                         THEN SetSessionError("GongAuthenticationError")
                         ELSE Returned(None)]

\* agent.set_session(gs)
AgentSetSession ==
    /\ pc = "idle"
    /\ \E gs \in SetSessionArgs, has_manager \in BOOLEAN :
          LET r == agent_set_session(has_manager, session, api_client, gs)
          IN  /\ session' = r.session
              /\ api_client' = r.api_client
              /\ set_result' = [called |-> TRUE, op |-> "GongAgent.set_session",
                                arg |-> gs, result |-> r.result]
    /\ UNCHANGED <<now, auto_refresh_enabled, callVars, workerVars, histVars,
                   mgrVars, rateVars, batchVars>>

\* agent.api_client.set_session(gs)
ClientSetSession ==
    /\ pc = "idle"
    /\ api_client # None
    /\ \E gs \in SetSessionArgs :
          LET r == RunSetSession("install_client", api_client[1], gs)
          IN  /\ api_client' = Some(r.api_client)
              /\ set_result' =
                    [called |-> TRUE, op |-> "GongAPIClient.set_session",
                     arg |-> gs,
                     result |-> IF r.wpc = "failed"
                                THEN Raised("GongAuthenticationError",
                                            "Invalid session provided")
                                ELSE Returned(None)]
    /\ UNCHANGED <<now, session, auto_refresh_enabled, callVars, workerVars,
                   histVars, mgrVars, rateVars, batchVars>>

\* an agent whose callers install and replace sessions as time passes
NextSetSession ==
    \/ Tick
    \/ InstallSession
    \/ AgentSetSession
    \/ ClientSetSession

\* ------------------------------------------------------------------------
\* GongAPIClient._make_request around the manager (api_client/client.py)
\* ------------------------------------------------------------------------

\* _make_request at clock t up to self.session.request(...): ocur is what
\* get_current_session returns.  It raises, or the request goes out with the
\* headers and base URL of that session.
_make_request(ocur, t) ==
    IF ocur = None
    THEN Raised("GongAuthenticationError", "No active session")
    ELSE LET headers == get_session_headers(ocur)
         IN  IF ~headers.ok
             THEN headers
             ELSE Returned([sent_at |-> t, session |-> ocur[1],
                            headers |-> headers.value,
                            base_url |-> get_base_url(ocur[1])])

\* client._make_request(method, endpoint) on the client of this manager
MakeRequest ==
    /\ mgr_result' =
          [op |-> "_make_request", target |-> None, jwt_tokens |-> <<>>,
           result |-> _make_request(IF mgr_current_session = None
                                    THEN None
                                    ELSE Some(heap[mgr_current_session[1]]),
                                    now)]
    /\ UNCHANGED <<now, agentVars, callVars, workerVars, histVars, rateVars,
                   batchVars, setVars, heap, mgr_current_session,
                   mgr_session_cache>>

\* a manager that builds sessions and a client that sends requests with them
NextRequests ==
    \/ Tick
    \/ BuildSession
    \/ MakeRequest

\* ------------------------------------------------------------------------
\* Properties
\* ------------------------------------------------------------------------

\* the call of _execute_with_retry has returned or raised
Done ==
    pc \in {"returned", "raised"}

\* the last entry of the invocation history
LastInvocation ==
    opLog[Len(opLog)]

\* the messages of the model that contain one of the four substrings once
\* lower-cased, listed by hand
ExpectedAuthMessages ==
    {MsgHttp401, Msg401Unauthorized, MsgUpperUnauthorized}

\* the other messages of the model
ExpectedNonAuthMessages ==
    {MsgRateLimit, MsgHttp500, MsgApiError, MsgNoneType, MsgNoActiveSession,
     MsgNoValidSession, MsgAllExpired}

\* every invocation so far raised an authentication-class error
AllInvocationsAuthFailures ==
    \A i \in 1..Len(opLog) :
        opLog[i].raised # None /\ opLog[i].raised[1] \in ExpectedAuthMessages

\* the provider handed the refresh a usable capture and did not time out
ProviderSucceeded ==
    delivered /\ refreshOutcome # "timeout"

C2_FailOnceThenSucceed ==
    (/\ Done
     /\ max_retries = 1
     /\ opLog # <<>>
     /\ opLog[1].raised = Some(Msg401Unauthorized)
     /\ (Len(opLog) >= 2 => opLog[2].raised = None)
     /\ ProviderSucceeded)
    => (/\ refreshCalls = 1
        /\ pc = "returned"
        /\ outcome = Some(Returned([invocation |-> 2])))

\* C3: when the operation raises a non-authentication error, refresh is never
\* invoked, the operation is invoked exactly once and the call raises a
\* GongAgentError carrying that error.
C3_NonAuthSurfaced ==
    (/\ opLog # <<>>
     /\ opLog[1].raised # None
     /\ opLog[1].raised[1] \in ExpectedNonAuthMessages)
    => (/\ refreshCalls = 0
        /\ Len(opLog) = 1
        /\ pc \in {"raised", "idle"}
        /\ outcome = Some(AggregateError(op_kind, max_retries, opLog[1].raised)))

C3_Witness ==
    /\ pc = "raised"
    /\ Len(opLog) = 1
    /\ opLog[1].raised = Some(MsgApiError)
    /\ max_retries = 1
    /\ auto_refresh_enabled

\* C4: in a call with max_retries = n >= 0 the operation is invoked at most
\* n + 1 times and refresh at most n times.
C4_BoundedAttempts ==
    max_retries >= 0 =>
        (Len(opLog) <= max_retries + 1 /\ refreshCalls <= max_retries)

C4_Witness ==
    /\ pc = "raised"
    /\ max_retries = 1
    /\ refreshCalls = 1
    /\ refreshOutcome = "failed"

\* the refresh of the current call has failed: the worker raised, or the
\* caller's wait timed out
RefreshHasFailed ==
    /\ pc # "idle"
    /\ (wpc = "failed" \/ refreshOutcome \in {"failed", "timeout"})

\* C5: once the refresh of a call has failed, that call invokes neither the
\* operation nor refresh again, and it can only end by raising.
C5_RefreshFailureTerminal ==
    [][RefreshHasFailed =>
          (/\ opLog' = opLog
           /\ refreshCalls' = refreshCalls
           /\ pc' \in {"asyncio_run", "future_result", "executor_shutdown",
                       "raised", "idle"}
           /\ (pc' \in {"asyncio_run", "future_result"} => pc' = pc)
           /\ (pc' = "raised" => ~outcome'[1].ok))]_vars

C5_Witness ==
    /\ pc = "raised"
    /\ refreshOutcome = "failed"
    /\ refreshCalls = 1
    /\ max_retries = 2

\* the worker has run _apply_session_to_client on a usable capture
AppliedUsableCapture ==
    delivered /\ wpc \in {"done", "failed"}

C7_Classification ==
    (/\ pc # "idle"
     /\ opLog # <<>>
     /\ LastInvocation.raised # None)
    => ((refreshCalls = Len(opLog))
        <=> (/\ LastInvocation.raised[1] \in ExpectedAuthMessages
             /\ Len(opLog) <= max_retries
             /\ auto_refresh_enabled))

C7_Witness ==
    /\ refreshCalls = 1
    /\ Len(opLog) = 1
    /\ opLog[1].raised = Some(MsgUpperUnauthorized)
    /\ wpc = "load_session"

\* every token of the session is expired
AllTokensExpired(s) ==
    /\ Len(s.authentication_tokens) > 0
    /\ \A i \in 1..Len(s.authentication_tokens) : s.authentication_tokens[i].is_expired

\* C8: a failure of the operation caused by every token of the current session
\* being expired is authentication-class: with attempts remaining and
\* automatic refresh on, it starts a refresh.
C8_ExpiredSessionIsAuthClass ==
    (/\ pc # "idle"
     /\ op_kind = "request"
     /\ opLog # <<>>
     /\ LastInvocation.raised # None
     /\ LastInvocation.read # None
     /\ AllTokensExpired(LastInvocation.read[1])
     /\ Len(opLog) <= max_retries
     /\ auto_refresh_enabled)
    => refreshCalls = Len(opLog)

AwaitingRefresh ==
    pc \in {"asyncio_run", "future_result", "executor_shutdown"}

\* C11: a call that has started a refresh eventually returns to its caller
\* (by returning or by raising) even if the capture provider never answers
C11_RefreshingRunReturns ==
    AwaitingRefresh ~> Done

\* what a reader sees once the session sn is completely in place
InPlace(sn, s, c) ==
    /\ s = Some(sn)
    /\ c # None
    /\ c[1].current_session = Some(sn)
    /\ c[1].base_url = Some(get_base_url(sn))
    /\ c[1].user_email = Some(sn.user_email)
    /\ c[1].cell_id = Some(sn.cell_id)

Built ==
    mgr_result.op = "build"

\* the tokens of a session without their expires_at
TokensButExpiry(s) ==
    [i \in 1..Len(s.authentication_tokens) |->
        [s.authentication_tokens[i] EXCEPT !.expires_at = 0]]

MajorityRule(s) ==
    \/ Len(s.authentication_tokens) = 0
    \/ 2 * Cardinality(ExpiredTokens(s)) > Len(s.authentication_tokens)

\* is_session_expired has just judged a session
Judged ==
    /\ mgr_result.op = "is_session_expired"
    /\ TargetRef(mgr_result.target) # None

\* the session it judged
JudgedSession ==
    heap[TargetRef(mgr_result.target)[1]]

\* C15: is_session_expired returns true exactly when the session has no
\* tokens or more than half of its tokens are expired
C15_ExpiredIffMajority ==
    Judged => (mgr_result.result.value = MajorityRule(JudgedSession))

\* C15, amended: is_session_expired returns true exactly when the session is
\* not active, or has no tokens, or more than half of its tokens are expired
C15_ExpiredIffInactiveOrMajority ==
    Judged =>
        (mgr_result.result.value
            = (~JudgedSession.is_active \/ MajorityRule(JudgedSession)))

\* an active session with exactly half of its tokens expired was judged not
\* expired
C15_Witness ==
    /\ Judged
    /\ JudgedSession.is_active
    /\ Len(JudgedSession.authentication_tokens) > 0
    /\ 2 * Cardinality(ExpiredTokens(JudgedSession))
           = Len(JudgedSession.authentication_tokens)
    /\ mgr_result.result.value = FALSE

\* C16: whenever a token is read, its is_expired equals (now > expires_at)
C16_IsExpiredTracksClock ==
    \A r \in 1..Len(heap) :
        \A i \in 1..Len(heap[r].authentication_tokens) :
            heap[r].authentication_tokens[i].is_expired
                = (now > heap[r].authentication_tokens[i].expires_at)

\* C17: a build from which no token is derived raises
\* GongAuthenticationError, and no session without tokens is returned by a
\* build or is the manager's current session
C17_ZeroTokensRaise ==
    /\ (Built /\ mgr_result.jwt_tokens = <<>>) =>
           /\ ~mgr_result.result.ok
           /\ mgr_result.result.error = "GongAuthenticationError"
    /\ (Built /\ mgr_result.result.ok) =>
           Len(heap[mgr_result.result.value].authentication_tokens) > 0
    /\ mgr_current_session # None =>
           Len(heap[mgr_current_session[1]].authentication_tokens) > 0

\* a build from which no token was derived has raised
C17_Witness ==
    /\ Built
    /\ mgr_result.jwt_tokens = <<>>
    /\ ~mgr_result.result.ok

\* the latest build derived at least one token and every one reads expired
DerivedAllExpired ==
    /\ Built
    /\ mgr_result.jwt_tokens # <<>>
    /\ \A i \in 1..Len(mgr_result.jwt_tokens) : mgr_result.jwt_tokens[i].is_expired

C19_BuiltIsCurrentAndCached ==
    (Built /\ mgr_result.result.ok) =>
        LET ref == mgr_result.result.value
        IN  /\ mgr_current_session = Some(ref)
            /\ heap[ref].session_id \in DOMAIN mgr_session_cache
            /\ mgr_session_cache[heap[ref].session_id] = ref

\* a second session has been built and returned
C19_Witness ==
    /\ Built
    /\ mgr_result.result.ok
    /\ mgr_result.result.value > 1
    /\ Cardinality(DOMAIN mgr_session_cache) > 1

\* C20: an entry of session_cache is never removed and never replaced by a
\* different session, whatever is built or refreshed
C20_CacheAppendOnly ==
    [][\A id \in DOMAIN mgr_session_cache :
          /\ id \in DOMAIN mgr_session_cache'
          /\ \/ mgr_session_cache'[id] = mgr_session_cache[id]
             \/ heap'[mgr_session_cache'[id]] = heap[mgr_session_cache[id]]]_vars

\* C29: when _execute_with_retry returns the result of an invocation, the
\* agent's session has a last_activity that is not older than the moment the
\* invocation began
C29_SuccessBumpsLastActivity ==
    [][(pc # "returned" /\ pc' = "returned" /\ session' # None)
          => session'[1].last_activity >= now]_vars

\* C30: the number of attempts the aggregate error names is the number of
\* times the operation was invoked in the call that raised it
C30_AttemptsNamedAreInvocations ==
    pc = "raised" =>
        /\ outcome # None
        /\ outcome[1].error = "GongAgentError"
        /\ outcome[1].message.operation = op_kind
        /\ outcome[1].message.cause = last_exception
        /\ outcome[1].message.attempts = Len(opLog)

\* the positions of '@' in an e-mail address that are followed by a character
DomainStarts(email) ==
    {i \in 1..Len(email) : email[i] = "@" /\ i < Len(email)}

\* C21: every session the manager built or holds as current has at least one
\* token, a cell_id that is empty or at least 3 long, and a user_email with
\* an '@' followed by a domain segment
C21_SessionsWellFormed ==
    \A r \in 1..Len(heap) :
        /\ Len(heap[r].authentication_tokens) > 0
        /\ Len(heap[r].cell_id) = 0 \/ Len(heap[r].cell_id) >= 3
        /\ DomainStarts(heap[r].user_email) # {}

\* C22: the tokens of every built session differ pairwise in raw_token
C22_TokensUniqueByRaw ==
    \A r \in 1..Len(heap) :
        \A i, j \in 1..Len(heap[r].authentication_tokens) :
            heap[r].authentication_tokens[i].raw_token
                    = heap[r].authentication_tokens[j].raw_token
                => i = j

\* C23: every token the latest build extracted was issued before it expires
C23_IssuedBeforeExpiry ==
    Built =>
        \A i \in 1..Len(mgr_result.jwt_tokens) :
            mgr_result.jwt_tokens[i].iat < mgr_result.jwt_tokens[i].expires_at

\* the tokens of the latest build that carry both an e-mail and a cell id
FullTokens ==
    {i \in 1..Len(mgr_result.jwt_tokens) :
        /\ mgr_result.jwt_tokens[i].user_email # <<>>
        /\ mgr_result.jwt_tokens[i].cell_id # <<>>}

\* C24: a built session has the user_email and cell_id of the first extracted
\* token that carries both, and no company_id or workspace_id; a build whose
\* tokens never carry both raises GongAuthenticationError
C24_IdentityFromFirstFullToken ==
    Built =>
        IF FullTokens = {}
        THEN /\ ~mgr_result.result.ok
             /\ mgr_result.result.error = "GongAuthenticationError"
        ELSE mgr_result.result.ok =>
                LET s == heap[mgr_result.result.value]
                    first == CHOOSE i \in FullTokens : \A k \in FullTokens : i <= k
                IN  /\ s.user_email = mgr_result.jwt_tokens[first].user_email
                    /\ s.cell_id = mgr_result.jwt_tokens[first].cell_id
                    /\ s.company_id = None
                    /\ s.workspace_id = None

\* a session was built from tokens of which the first carries no cell id and
\* two later ones carry different identities
C24_Witness ==
    /\ Built
    /\ mgr_result.result.ok
    /\ 1 \notin FullTokens
    /\ \E i, j \in FullTokens :
          mgr_result.jwt_tokens[i].user_email # mgr_result.jwt_tokens[j].user_email

\* how often a "name=value" part with that value occurs in a Cookie header
PartsWithValue(parts, value) ==
    Cardinality({i \in 1..Len(parts) : parts[i][2] = value})

\* C25: the Cookie header built for a session has the raw_token of every
\* token not marked expired exactly once, every session cookie exactly once
\* and the raw_token of no token marked expired
C25_HeaderCarriesSessionOnce ==
    (mgr_result.op = "get_session_headers" /\ mgr_result.result.ok) =>
        LET s == Deref(TargetRef(mgr_result.target))[1]
            parts == IF mgr_result.result.value.Cookie = None
                     THEN <<>>
                     ELSE mgr_result.result.value.Cookie[1]
        IN  /\ \A i \in 1..Len(s.authentication_tokens) :
                  PartsWithValue(parts, s.authentication_tokens[i].raw_token)
                      = IF s.authentication_tokens[i].is_expired THEN 0 ELSE 1
            /\ \A k \in 1..Len(s.session_cookies) :
                  Cardinality({i \in 1..Len(parts) : parts[i] = s.session_cookies[k]}) = 1

\* C26: with one caller, every return of _handle_rate_limiting follows a
\* sleep of min_request_interval minus the time since the previous return
\* when that time is below min_request_interval, and no sleep otherwise; the
\* sleep is never negative, so time.sleep never raises
C26_SingleCallerDelay ==
    acquired # <<>> =>
        LET latest == acquired[Len(acquired)]
            previous == IF Len(acquired) = 1 THEN 0 ELSE acquired[1].returned
            elapsed == latest.started - previous
        IN  /\ latest.sleep_time >= 0
            /\ latest.sleep_time = IF elapsed < MinRequestInterval
                                   THEN MinRequestInterval - elapsed
                                   ELSE 0
            /\ latest.returned >= latest.started + latest.sleep_time

\* the caller returned twice, the second time after a sleep shorter than
\* min_request_interval
C26_Witness ==
    /\ Len(acquired) = 2
    /\ acquired[2].sleep_time > 0
    /\ acquired[2].sleep_time < MinRequestInterval

\* C27: of two consecutive returns of _handle_rate_limiting on one client,
\* the later is at least min_request_interval after the earlier
C27_ReturnsSpaced ==
    Len(acquired) = 2 =>
        acquired[2].returned - acquired[1].returned >= MinRequestInterval

\* the object types whose extract_<type>() returned, or raised, in the
\* latest call of extract_all_data
BatchTypes(ok) ==
    {batch.attempted[i].type :
        i \in {j \in 1..Len(batch.attempted) : batch.attempted[j].outcome.ok = ok}}

\* C28: when extract_all_data returns, every included object type was
\* attempted once whatever the earlier ones did, data holds what each
\* successful type returned, successful_objects + failed_objects =
\* target_objects, and errors has exactly one entry per failed type
C28_BatchIsolatesFailures ==
    (batch_pc = "done" /\ batch.result # None /\ batch.result[1].ok) =>
        LET r == batch.result[1].value
            att == batch.attempted
        IN  /\ BatchTypes(TRUE) \cup BatchTypes(FALSE) = batch.include
            /\ Len(att) = Cardinality(batch.include)
            /\ DOMAIN r.data = BatchTypes(TRUE)
            /\ \A i \in 1..Len(att) :
                  att[i].outcome.ok => r.data[att[i].type] = att[i].outcome.value
            /\ r.metadata.target_objects = Cardinality(batch.include)
            /\ r.metadata.successful_objects = Cardinality(BatchTypes(TRUE))
            /\ r.metadata.failed_objects = Cardinality(BatchTypes(FALSE))
            /\ r.metadata.successful_objects + r.metadata.failed_objects
                   = r.metadata.target_objects
            /\ Len(r.metadata.errors) = Cardinality(BatchTypes(FALSE))
            /\ {r.metadata.errors[i].type : i \in 1..Len(r.metadata.errors)}
                   = BatchTypes(FALSE)

\* a call for all six object types returned after the first type failed with
\* an auth failure, a later type failed too and others succeeded
C28_Witness ==
    /\ batch_pc = "done"
    /\ batch.result # None
    /\ batch.result[1].ok
    /\ Len(batch.attempted) = Len(ObjectTypes)
    /\ ~batch.attempted[1].outcome.ok
    /\ batch.attempted[1].outcome.message.cause = Some(MsgHttp401)
    /\ Cardinality(BatchTypes(FALSE)) >= 2
    /\ Cardinality(BatchTypes(TRUE)) >= 2

\* C31: a session auto_refresh_if_needed returns is judged valid by
\* is_session_valid and not expired by is_session_expired
C31_AutoRefreshReturnsValid ==
    (mgr_result.op = "auto_refresh_if_needed" /\ mgr_result.result.ok) =>
        /\ is_session_valid(Some(heap[mgr_result.result.value]))
        /\ ~is_session_expired(Some(heap[mgr_result.result.value]))

\* C37: no session is judged valid by is_session_valid and expired by
\* is_session_expired at once
C37_ValidExcludesExpired ==
    \A r \in 1..Len(heap) :
        ~(is_session_valid(Some(heap[r])) /\ is_session_expired(Some(heap[r])))

\* C38: a run that returns has just had an invocation succeed and returns that
\* invocation's result; a run that ends any other way raises GongAgentError
C38_ReturnsOnlyInvocationResult ==
    /\ pc = "returned" =>
          /\ opLog # <<>>
          /\ opLog[Len(opLog)].raised = None
          /\ outcome = Some(Returned([invocation |-> Len(opLog)]))
    /\ pc = "raised" =>
          /\ outcome # None
          /\ ~outcome[1].ok
          /\ outcome[1].error = "GongAgentError"

\* a run with a negative max_retries has ended without invoking the operation
C38_Witness ==
    /\ pc = "raised"
    /\ max_retries < 0
    /\ opLog = <<>>

\* a run has returned the result of its invocation
C38_WitnessReturned ==
    /\ pc = "returned"
    /\ outcome = Some(Returned([invocation |-> Len(opLog)]))

\* C39: while automatic refresh is disabled a run starts no refresh, leaves
\* the session and the client as they were, and an auth failure ends it after
\* one invocation
C39_DisabledNeverRefreshes ==
    (pc # "idle" /\ ~auto_refresh_enabled) =>
        /\ refreshCalls = 0
        /\ wpc = "none"
        /\ session = preRefresh.session
        /\ api_client = preRefresh.api_client
        /\ (pc = "raised" /\ opLog # <<>>) => Len(opLog) = 1
        /\ pc = "invoke" => opLog = <<>>

\* with refresh disabled and retries allowed, an auth failure has ended the
\* run after one invocation
C39_Witness ==
    /\ pc = "raised"
    /\ ~auto_refresh_enabled
    /\ max_retries > 0
    /\ Len(opLog) = 1
    /\ opLog[1].raised # None
    /\ IsAuthError(opLog[1].raised[1])
    /\ refreshCalls = 0

\* C35: a build that raises leaves current_session, session_cache and every
\* session object as they were
C35_FailedBuildKeepsStore ==
    [][(/\ mgr_result' # mgr_result
        /\ mgr_result'.op = "build"
        /\ ~mgr_result'.result.ok)
          => UNCHANGED <<heap, mgr_current_session, mgr_session_cache>>]_vars

\* a build has raised while a session was current and cached, for each way a
\* build can fail
C35_Witness ==
    /\ mgr_result.op = "build"
    /\ ~mgr_result.result.ok
    /\ mgr_result.result.error = "GongSessionExpiredError"
    /\ mgr_current_session # None
    /\ DOMAIN mgr_session_cache # {}

\* C33: every call of _update_extraction_stats adds one to total_extractions
\* and to exactly one of the two other counters, the failed one exactly when
\* an error was given, which then becomes last_error; the total stays the sum
C33_StatsCountCalls ==
    [][extraction_stats' # extraction_stats =>
        /\ extraction_stats'.total_extractions =
               extraction_stats.total_extractions + 1
        /\ extraction_stats'.total_extractions =
               extraction_stats'.successful_extractions
                   + extraction_stats'.failed_extractions
        /\ IF stats_call'.error # None
           THEN /\ extraction_stats'.failed_extractions =
                       extraction_stats.failed_extractions + 1
                /\ extraction_stats'.successful_extractions =
                       extraction_stats.successful_extractions
                /\ extraction_stats'.last_error = stats_call'.error
           ELSE /\ extraction_stats'.successful_extractions =
                       extraction_stats.successful_extractions + 1
                /\ extraction_stats'.failed_extractions =
                       extraction_stats.failed_extractions
                /\ extraction_stats'.last_error = extraction_stats.last_error]_vars

\* the part of C33 that does not depend on what counts as an error: the total
\* is the sum of the two other counters
C33_TotalIsSum ==
    extraction_stats.total_extractions =
        extraction_stats.successful_extractions
            + extraction_stats.failed_extractions

\* C32: GongAPIClient.set_session with a session is_session_valid rejects
\* raises GongAuthenticationError and leaves the client as it was
C32_RejectedSessionKeepsClient ==
    [][(/\ set_result' # set_result
        /\ set_result'.op = "GongAPIClient.set_session"
        /\ ~is_session_valid(Some(set_result'.arg)))
          => /\ ~set_result'.result.ok
             /\ set_result'.result.error = "GongAuthenticationError"
             /\ api_client' = api_client]_vars

\* the client has refused an expired session of another user and still has
\* the session, base_url, user_email and cell_id of the user before
C32_Witness ==
    /\ set_result.called
    /\ set_result.op = "GongAPIClient.set_session"
    /\ ~set_result.result.ok
    /\ set_result.arg = SessionOtherExpired
    /\ api_client # None
    /\ api_client[1].current_session = Some(SessionActive)
    /\ api_client[1].base_url = Some(get_base_url(SessionActive))
    /\ api_client[1].user_email = Some(EmailAB)
    /\ api_client[1].cell_id = Some(CellUS)

\* C36: once GongAgent.set_session has returned or raised, agent.session is
\* the session the client holds
C36_AgentAndClientAgree ==
    (set_result.called /\ set_result.op = "GongAgent.set_session") =>
        (api_client # None => api_client[1].current_session = session)

\* C34: a request _make_request sends goes out with a current session that
\* has a token whose expiry has not passed at the time of the call
C34_SendsOnlyWithLiveToken ==
    (mgr_result.op = "_make_request" /\ mgr_result.result.ok) =>
        LET sent == mgr_result.result.value
        IN  \E i \in 1..Len(sent.session.authentication_tokens) :
                sent.sent_at <= sent.session.authentication_tokens[i].expires_at

\* the part of C34 about the calls that raise: without a current session, or
\* with one that is_session_valid rejects, _make_request raises
\* GongAuthenticationError
C34_RaisesWithoutValidSession ==
    (/\ mgr_result.op = "_make_request"
     /\ \/ mgr_current_session = None
        \/ ~is_session_valid(Some(heap[mgr_current_session[1]])))
        => /\ ~mgr_result.result.ok
           /\ mgr_result.result.error = "GongAuthenticationError"

Spec ==
    Init /\ [][Next]_vars

\* a GongAuthenticationManager used on its own, on the sessions it builds
SpecManager ==
    Init /\ [][NextManager]_vars

\* a GongAuthenticationManager used on its own, on sessions handed to it
SpecOwnSessions ==
    Init /\ [][NextOwnSessions]_vars

\* a GongAuthenticationManager used on its own to build sessions and headers
SpecExtraction ==
    Init /\ [][NextExtraction]_vars

\* a GongAPIClient whose requests all come from one thread
SpecSingleCaller ==
    Init /\ [][NextSingleCaller]_vars

\* a GongAPIClient whose requests come from two threads
SpecSharedCallers ==
    Init /\ [][NextSharedCallers]_vars

\* a GongAgent whose caller asks for every object type at once
SpecBatch ==
    Init /\ [][NextBatch]_vars

\* the statistics of an agent under every sequence of updates
SpecStats ==
    Init /\ [][NextStats]_vars

\* an agent under every sequence of set_session calls
SpecSetSession ==
    Init /\ [][NextSetSession]_vars

\* a client that sends requests with the sessions its manager builds
SpecRequests ==
    Init /\ [][NextRequests]_vars

\* The scheduling the code guarantees: the caller's own statements and the
\* refresh's own statements run when they can, a pending future.result
\* times out; the capture provider is under no obligation to answer.
SpecFair ==
    /\ Init
    /\ [][Next]_vars
    /\ WF_vars(InvokeOperation)
    /\ WF_vars(ApplySession)
    /\ WF_vars(AsyncioRunReturns)
    /\ WF_vars(FutureResultReturns)
    /\ WF_vars(FutureResultTimeout)
    /\ WF_vars(ExecutorShutdownReturns)
    /\ WF_vars(CallEnds)

====
